---- MODULE Spec2Model ----
(***************************************************************************)
(* A model of src/core/quokka.py: the ExternalProcess supervision          *)
(* primitive (wait, stop, is_running) and the Quokka orchestrator          *)
(* (run_plugin, stop_plugin, attach_monitors, attach_loggers,              *)
(* detect_faults).                                                         *)
(*                                                                         *)
(* Python's None is the empty sequence and a present value x is <<x>>.     *)
(* A dotted import path is the sequence of its segments.                   *)
(***************************************************************************)
EXTENDS Integers, Sequences, FiniteSets, TLC

None == <<>>
Some(x) == <<x>>

(* ------------------------------ bounds -------------------------------- *)
MaxMonitors == 2
MaxLoggers == 2
MaxListeners == 1

(* --------------------------- small helpers ---------------------------- *)
RECURSIVE SeqsUpTo(_, _)
SeqsUpTo(S, n) ==
    IF n = 0 THEN {<<>>}
    ELSE LET shorter == SeqsUpTo(S, n - 1)
         IN  shorter \cup {Append(s, x) : s \in {t \in shorter : Len(t) = n - 1}, x \in S}

Range(s) == {s[i] : i \in 1..Len(s)}

(* ------------------------- the import registry ------------------------ *)
(* What __import__ and getattr find on disk: the packages that exist and  *)
(* the classes each one holds.                                            *)
PluginsPkg == <<"core", "plugins">>
MonitorsPkg == <<"core", "monitors">>
ListenersPkg == <<"core", "listeners">>
LoggersPkg == <<"core", "loggers">>

Modules == {PluginsPkg, MonitorsPkg, ListenersPkg, LoggersPkg}

ClassesOf(module) ==
    IF module = PluginsPkg THEN {"Plugin"}
    ELSE IF module = MonitorsPkg
         THEN {"ConsoleMonitor", "WebSocketMonitor", "OtherMonitor"}
    ELSE IF module = ListenersPkg THEN {"Listener"}
    ELSE IF module = LoggersPkg THEN {"Logger"}
    ELSE {}

(* ModuleImporter.__init__: the class name is the last segment, the       *)
(* module path is everything before it.                                   *)
ModuleImporter(module_path) ==
    [class_name |-> module_path[Len(module_path)],
     module_path |-> SubSeq(module_path, 1, Len(module_path) - 1)]

(* ModuleImporter.klass: __import__ raises ImportError for a missing      *)
(* module, getattr raises AttributeError for a missing class.  Neither is *)
(* a PluginException.                                                     *)
klass(imp) ==
    IF imp.module_path \notin Modules
    THEN [raised |-> Some([type |-> "ImportError", arg |-> imp.module_path]),
          class |-> "-"]
    ELSE IF imp.class_name \notin ClassesOf(imp.module_path)
    THEN [raised |-> Some([type |-> "AttributeError", arg |-> <<imp.class_name>>]),
          class |-> "-"]
    ELSE [raised |-> None, class |-> imp.class_name]

(* The MONITOR_NAME attribute a monitor class declares. *)
MONITOR_NAME(class) == class

(* ------------------------------ inputs -------------------------------- *)
PluginClassIds == {<<"Plugin">>, <<"nomod", "Plugin">>, <<"NoSuchPlugin">>}
ListenerClassIds == {<<"Listener">>, <<"Bogus">>}
LoggerClassIds == {<<"Logger">>, <<"Bogus">>}
ListenerLists == SeqsUpTo(ListenerClassIds, MaxListeners)

(* A monitor spec: its class identifier and its listener specs.  The      *)
(* listeners of a spec whose class is skipped or unresolved are never     *)
(* read, so those specs are listed with no listeners.                     *)
MonitorSpecs ==
    {[class |-> c, listeners |-> ls] :
        c \in {<<"ConsoleMonitor">>, <<"WebSocketMonitor">>}, ls \in ListenerLists}
    \cup {[class |-> c, listeners |-> <<>>] : c \in {<<"OtherMonitor">>, <<"Bogus">>}}

(* The lists run_plugin hands to attach_monitors and attach_loggers. *)
MonitorSpecLists == SeqsUpTo(MonitorSpecs, MaxMonitors)
LoggerSpecLists == SeqsUpTo(LoggerClassIds, MaxLoggers)

ExitCodes == {0, 1}
SIGTERM == 15
SIGKILL == 9
Data == {"d1", "d2"}

VARIABLES
    conf,           \* Quokka.conf; its monitors and loggers lists are drawn
                    \* when run_plugin reads them and are empty until then
    pc,             \* position of run_plugin
    phases,         \* the steps run_plugin has executed, in order
    plugin,         \* Quokka.plugin: "None" or "Plugin"
    startOutcome,   \* how plugin.start() ended
    monitors,       \* Quokka.monitors: monitor instances
    loggers,        \* Quokka.loggers: logger instances
    startLog,       \* monitor instances in the order start() reached them
    registered,     \* add_listener calls: <<spec index, listener index, instance>>
    trace,          \* the calls detect_faults made on monitors and loggers
    raised,         \* the exception run_plugin ended with, or None
    result,         \* the value run_plugin returned, or None
    process,        \* ExternalProcess.process: "None" or "Popen"
    child,          \* the OS process: "none", "running" or "exited"
    exitStatus,     \* the exit status of the OS process once exited
    returncode,     \* Popen.returncode
    stopCall,       \* the last ExternalProcess.stop() call
    stopOutcome,    \* how the last stop_plugin call ended
    wpc,            \* position of ExternalProcess.wait
    timeout,        \* the timeout argument of wait, in milliseconds
    now,            \* time.time(), in milliseconds
    end_time,       \* wait's local end_time
    interval,       \* wait's local interval
    waitResult,     \* the value wait returned
    alive,          \* monitor instances whose background task is running
    environ,        \* os.environ, the environment of this process
    context,        \* the context argument of the last set_environ call
    inherited,      \* os.environ as it was when that call was entered
    env,            \* the mapping that call returned, or None
    envRaised,      \* the exception that call ended with, or None
    envCalls        \* the number of set_environ calls made

vars == <<conf, pc, phases, plugin, startOutcome, monitors, loggers, startLog,
          registered, trace, raised, result, process, child, exitStatus,
          returncode, stopCall, stopOutcome,
          wpc, timeout, now, end_time, interval, waitResult,
          alive, environ, context, inherited, env, envRaised, envCalls>>

quokkaVars == <<conf, pc, phases, plugin, startOutcome, monitors, loggers,
                startLog, alive, registered, trace, raised, result, stopOutcome>>
procVars == <<process, child, exitStatus, returncode, stopCall>>
waitVars == <<wpc, timeout, now, end_time, interval, waitResult>>
envVars == <<environ, context, inherited, env, envRaised, envCalls>>

Exc(type, arg) == Some([type |-> type, arg |-> arg])

(* ----------------------------- the process ---------------------------- *)
(* Popen.poll(): the exit status once the child has exited, else None. *)
poll == IF child = "exited" THEN Some(exitStatus) ELSE None

(* ExternalProcess.is_running *)
is_running ==
    IF process = "None" THEN FALSE
    ELSE IF poll # None THEN FALSE
    ELSE TRUE

NoStopCall ==
    [called |-> FALSE, terminate |-> "not_called", kill |-> "not_called",
     propagated |-> None]

(* What a delivered signal does to the child.  SIGTERM may be handled or  *)
(* ignored by a running child; SIGKILL cannot.  A child that has exited   *)
(* is not changed.                                                        *)
Signalled(sig, dies) ==
    IF child = "running" /\ dies
    THEN /\ child' = "exited"
         /\ exitStatus' = 0 - sig
    ELSE UNCHANGED <<child, exitStatus>>

(* The errors Popen.terminate() and Popen.kill() raise: os.kill failing. *)
SignalErrors == {"PermissionError", "ProcessLookupError"}

(* The exception types that derive from Exception; KeyboardInterrupt and  *)
(* SystemExit do not.                                                     *)
ExceptionTypes ==
    {"OSError", "PermissionError", "ProcessLookupError", "AttributeError",
     "ImportError", "RuntimeError", "TypeError", "UnboundLocalError",
     "PluginException", "QuokkaException"}

(* A faulty handler: only PluginException is caught. *)
ExceptException_plugin_only(exc) ==
    IF exc[1].type = "PluginException" THEN None ELSE exc

(* except Exception as e: logging.error(e) -- what still propagates. *)
ExceptException(exc) ==
    IF exc[1].type \in ExceptionTypes THEN None ELSE exc

(* ExternalProcess.stop: terminate() and kill() share one try block, so   *)
(* kill() is reached only when terminate() did not raise; any exception   *)
(* is logged and swallowed.                                               *)
stop ==
    IF process # "None"
    THEN \/ \* terminate() succeeds, kill() succeeds: the child dies of
            \* whichever signal it acts on first
            /\ \E sig \in {SIGTERM, SIGKILL} : Signalled(sig, TRUE)
            /\ stopCall' = [called |-> TRUE, terminate |-> "ok", kill |-> "ok",
                            propagated |-> None]
         \/ \* terminate() succeeds, kill() raises
            /\ \E dies \in BOOLEAN : Signalled(SIGTERM, dies)
            /\ \E err \in SignalErrors :
                  stopCall' = [called |-> TRUE, terminate |-> "ok", kill |-> "raised",
                               propagated |-> ExceptException(Exc(err, <<"kill">>))]
         \/ \* terminate() raises: kill() is skipped
            /\ UNCHANGED <<child, exitStatus>>
            /\ \E err \in SignalErrors :
                  stopCall' = [called |-> TRUE, terminate |-> "raised", kill |-> "not_called",
                               propagated |-> ExceptException(Exc(err, <<"terminate">>))]
    ELSE \* if self.process: is false, nothing is attempted
         /\ UNCHANGED <<child, exitStatus>>
         /\ stopCall' = [NoStopCall EXCEPT !.called = TRUE]

(* The child exits on its own. *)
ChildExit ==
    /\ child = "running"
    /\ \E code \in ExitCodes :
          /\ child' = "exited"
          /\ exitStatus' = code
    /\ UNCHANGED <<process, returncode, stopCall>>
    /\ UNCHANGED <<quokkaVars, waitVars, envVars>>

(* -------------------------- ExternalProcess.wait ---------------------- *)
(* Times are in milliseconds: timeout / 1000.0 and .25 of line 85 are     *)
(* timeout \div PollDivisor and MaxInterval.                              *)
DefaultTimeout == 600000
PollDivisor == 1000
MaxInterval == 250
Timeouts == {0, 1000, DefaultTimeout}

Min(a, b) == IF a <= b THEN a ELSE b

(* ExternalProcess.open: Popen(cmd, ...) spawns the child. *)
open ==
    /\ process = "None"
    /\ wpc = "idle"
    /\ process' = "Popen"
    /\ child' = "running"
    /\ UNCHANGED <<exitStatus, returncode, stopCall>>
    /\ UNCHANGED waitVars
    /\ UNCHANGED envVars
    /\ UNCHANGED quokkaVars

(* wait(timeout) is entered: the deadline and the interval are computed,  *)
(* or with a zero timeout the call goes straight to the blocking wait.    *)
(* On a handle that was never opened self.process is None and the first   *)
(* use of it raises AttributeError.                                       *)
wait_call ==
    /\ wpc = "idle"
    /\ \E t \in Timeouts :
          /\ timeout' = t
          /\ IF t # 0
             THEN /\ end_time' = now + t
                  /\ interval' = Min(t \div PollDivisor, MaxInterval)
                  /\ wpc' = IF process = "None" THEN "raised" ELSE "poll"
             ELSE /\ UNCHANGED <<end_time, interval>>
                  /\ wpc' = IF process = "None" THEN "raised" ELSE "final_wait"
    /\ UNCHANGED <<now, waitResult>>
    /\ UNCHANGED procVars
    /\ UNCHANGED quokkaVars
    /\ UNCHANGED envVars

(* result = self.process.poll(); if result is not None: return result *)
wait_poll ==
    /\ wpc = "poll"
    /\ returncode' = poll
    /\ IF poll # None
       THEN /\ waitResult' = poll
            /\ wpc' = "returned"
       ELSE /\ UNCHANGED waitResult
            /\ wpc' = "check"
    /\ UNCHANGED <<timeout, now, end_time, interval>>
    /\ UNCHANGED <<process, child, exitStatus, stopCall>>
    /\ UNCHANGED quokkaVars
    /\ UNCHANGED envVars

(* if time.time() >= end_time: break; else time.sleep(interval) *)
wait_sleep ==
    /\ wpc = "check"
    /\ IF now >= end_time
       THEN /\ wpc' = "stop"
            /\ UNCHANGED now
       ELSE /\ wpc' = "poll"
            /\ now' = now + interval
    /\ UNCHANGED <<timeout, end_time, interval, waitResult>>
    /\ UNCHANGED procVars
    /\ UNCHANGED quokkaVars
    /\ UNCHANGED envVars

(* self.stop() after the loop *)
wait_stop ==
    /\ wpc = "stop"
    /\ stop
    /\ wpc' = IF stopCall'.propagated = None THEN "final_wait" ELSE "raised"
    /\ UNCHANGED <<process, returncode>>
    /\ UNCHANGED <<timeout, now, end_time, interval, waitResult>>
    /\ UNCHANGED quokkaVars
    /\ UNCHANGED envVars

(* A faulty wait_final: the last statement polls instead of blocking. *)
wait_final_poll_only ==
    /\ wpc = "final_wait"
    /\ returncode' = poll
    /\ waitResult' = None
    /\ wpc' = "returned"
    /\ UNCHANGED <<timeout, now, end_time, interval>>
    /\ UNCHANGED <<process, child, exitStatus, stopCall>>
    /\ UNCHANGED quokkaVars
    /\ UNCHANGED envVars

(* self.process.wait(): blocks until the child has exited.  The statement *)
(* has no return, so wait itself returns None.                            *)
wait_final ==
    /\ wpc = "final_wait"
    /\ child = "exited"
    /\ returncode' = Some(exitStatus)
    /\ waitResult' = None
    /\ wpc' = "returned"
    /\ UNCHANGED <<timeout, now, end_time, interval>>
    /\ UNCHANGED <<process, child, exitStatus, stopCall>>
    /\ UNCHANGED quokkaVars
    /\ UNCHANGED envVars

(* Time passes while the thread is blocked in self.process.wait() on a    *)
(* child that still runs: the clock advances tick by tick, for as many    *)
(* ticks as the bound allows.                                             *)
MaxBlockedTicks == 2

wait_blocked ==
    /\ wpc = "final_wait"
    /\ child = "running"
    /\ now < end_time + MaxBlockedTicks * MaxInterval
    /\ now' = now + MaxInterval
    /\ UNCHANGED <<wpc, timeout, end_time, interval, waitResult>>
    /\ UNCHANGED procVars
    /\ UNCHANGED quokkaVars
    /\ UNCHANGED envVars

(* stop() called on the handle by its owner, outside wait: on a handle   *)
(* that was never opened, on a running child, on an exited child.        *)
stop_call ==
    /\ wpc \in {"idle", "returned", "raised"}
    /\ stop
    /\ UNCHANGED <<process, returncode>>
    /\ UNCHANGED waitVars
    /\ UNCHANGED envVars
    /\ UNCHANGED quokkaVars

wait ==
    \/ wait_call
    \/ wait_poll
    \/ wait_sleep
    \/ wait_stop
    \/ wait_blocked
    \/ wait_final

(* ------------------------- Quokka.attach_monitors --------------------- *)
(* The loop state: the lists built so far, the local monitor_instance     *)
(* (None while unbound) and the exception that ended the loop, if any.    *)
AttachInit(mons, slog, reg) ==
    [monitors |-> mons, startLog |-> slog, registered |-> reg,
     monitor_instance |-> None, raised |-> None]

(* The listener loop of one monitor spec, from listener j on. *)
RECURSIVE attach_listeners(_, _, _, _)
attach_listeners(st, i, listeners, j) ==
    IF j > Len(listeners) THEN st
    ELSE LET listener_class == klass(ModuleImporter(ListenersPkg \o listeners[j]))
         IN  IF listener_class.raised # None
             THEN [st EXCEPT !.raised = listener_class.raised]
             ELSE IF st.monitor_instance = None
             THEN [st EXCEPT !.raised = Exc("UnboundLocalError", <<"monitor_instance">>)]
             ELSE attach_listeners(
                      [st EXCEPT !.registered =
                          Append(@, <<i, j, st.monitor_instance[1]>>)],
                      i, listeners, j + 1)

(* The tail of one loop iteration: daemon = True, start(), append.        *)
(* start() on an instance that was started before either raises           *)
(* RuntimeError (a thread) or starts it again: restart says which.        *)
start_and_record(st, restart) ==
    IF st.raised # None THEN st
    ELSE IF st.monitor_instance = None
    THEN [st EXCEPT !.raised = Exc("UnboundLocalError", <<"monitor_instance">>)]
    ELSE LET m == st.monitor_instance[1]
         IN  IF m \in Range(st.startLog) /\ ~restart
             THEN [st EXCEPT !.raised = Exc("RuntimeError", <<"start">>)]
             ELSE [st EXCEPT !.startLog = Append(@, m),
                             !.monitors = Append(@, m)]

(* One iteration of the loop, for monitor spec i. *)
attach_monitor(st, i, monitor, restart) ==
    LET monitor_class == klass(ModuleImporter(MonitorsPkg \o monitor.class))
    IN  IF monitor_class.raised # None
        THEN [st EXCEPT !.raised = monitor_class.raised]
        ELSE IF MONITOR_NAME(monitor_class.class) = "ConsoleMonitor"
        THEN start_and_record(
                 attach_listeners([st EXCEPT !.monitor_instance = Some(i)],
                                  i, monitor.listeners, 1),
                 restart)
        ELSE IF MONITOR_NAME(monitor_class.class) = "WebSocketMonitor"
        THEN start_and_record(attach_listeners(st, i, monitor.listeners, 1), restart)
        ELSE st

RECURSIVE attach_monitors_from(_, _, _, _)
attach_monitors_from(st, specs, i, restart) ==
    IF i > Len(specs) \/ st.raised # None THEN st
    ELSE attach_monitors_from(attach_monitor(st, i, specs[i], restart[i]),
                              specs, i + 1, restart)

attach_monitors(specs, restart) ==
    attach_monitors_from(AttachInit(monitors, startLog, registered), specs, 1, restart)

(* ------------------------- Quokka.attach_loggers ---------------------- *)
RECURSIVE attach_loggers_from(_, _, _)
attach_loggers_from(st, specs, i) ==
    IF i > Len(specs) THEN st
    ELSE LET logger_class == klass(ModuleImporter(LoggersPkg \o specs[i]))
         IN  IF logger_class.raised # None
             THEN [st EXCEPT !.raised = logger_class.raised]
             ELSE attach_loggers_from([st EXCEPT !.loggers = Append(@, i)],
                                      specs, i + 1)

attach_loggers(specs) ==
    attach_loggers_from([loggers |-> loggers, raised |-> None], specs, 1)

(* -------------------------- Quokka.detect_faults ---------------------- *)
Call(op, mon, logger, data) ==
    [op |-> op, mon |-> mon, logger |-> logger, data |-> data]

(* for logger in self.loggers: logger.add_to_bucket(monitor_data) *)
RECURSIVE Deliver(_, _, _, _)
Deliver(lgs, k, mon, monitor_data) ==
    IF k > Len(lgs) THEN <<>>
    ELSE <<Call("add_to_bucket", mon, lgs[k], monitor_data)>>
         \o Deliver(lgs, k + 1, mon, monitor_data)

(* A faulty Visit: get_data() is called again for every logger. *)
Visit_get_data_per_logger(mon, fault, monitor_data, lgs) ==
    IF fault
    THEN <<Call("detected_fault", mon, 0, "True")>>
         \o (IF Len(lgs) > 0
             THEN <<Call("get_data", mon, 0, monitor_data),
                    Call("add_to_bucket", mon, lgs[1], monitor_data)>>
                  \o (IF Len(lgs) > 1
                      THEN <<Call("get_data", mon, 0, monitor_data)>>
                           \o Deliver(lgs, 2, mon, monitor_data)
                      ELSE <<>>)
             ELSE <<>>)
    ELSE <<Call("detected_fault", mon, 0, "False")>>

(* One monitor of the collection loop: detected_fault(), and when it is  *)
(* true one get_data() whose record goes to every logger.                 *)
Visit(mon, fault, monitor_data, lgs) ==
    IF fault
    THEN <<Call("detected_fault", mon, 0, "True"),
           Call("get_data", mon, 0, monitor_data)>>
         \o Deliver(lgs, 1, mon, monitor_data)
    ELSE <<Call("detected_fault", mon, 0, "False")>>

RECURSIVE Collect(_, _, _, _, _)
Collect(mons, lgs, k, faults, datas) ==
    IF k > Len(mons) THEN <<>>
    ELSE Visit(mons[k], faults[k], datas[k], lgs)
         \o Collect(mons, lgs, k + 1, faults, datas)

(* for logger in self.loggers: logger.add_fault() *)
RECURSIVE Finalize(_, _)
Finalize(lgs, k) ==
    IF k > Len(lgs) THEN <<>>
    ELSE <<Call("add_fault", 0, lgs[k], "-")>> \o Finalize(lgs, k + 1)

(* A faulty DetectTrace: the loggers are finalized before the monitors   *)
(* are visited.                                                           *)
DetectTrace_finalize_first(mons, lgs, faults, datas) ==
    Finalize(lgs, 1) \o Collect(mons, lgs, 1, faults, datas)

(* A faulty DetectTrace: the loggers are finalized only when some        *)
(* monitor reported a fault.                                              *)
DetectTrace_finalize_if_fault(mons, lgs, faults, datas) ==
    Collect(mons, lgs, 1, faults, datas)
    \o (IF \E k \in 1..Len(mons) : faults[k] THEN Finalize(lgs, 1) ELSE <<>>)

(* The calls of one pass, given what each visited monitor answers. *)
DetectTrace(mons, lgs, faults, datas) ==
    Collect(mons, lgs, 1, faults, datas) \o Finalize(lgs, 1)

detect_faults ==
    \E faults \in [1..Len(monitors) -> BOOLEAN], datas \in [1..Len(monitors) -> Data] :
        trace' = trace \o DetectTrace(monitors, loggers, faults, datas)

(* --------------------------- Quokka.run_plugin ------------------------ *)
(* except PluginException as msg: raise QuokkaException(msg).  Any other  *)
(* exception type passes through the except clause untouched.             *)
ExceptPluginException(exc) ==
    IF exc[1].type = "PluginException"
    THEN Exc("QuokkaException", exc[1].arg)
    ELSE exc

Abort(exc) ==
    /\ raised' = exc
    /\ pc' = "raised"

(* plugin_class = ModuleImporter('core.plugins.' + conf.plugin_class).klass() *)
rp_resolve ==
    /\ pc = "idle"
    /\ phases' = Append(phases, "resolve")
    /\ LET plugin_class == klass(ModuleImporter(PluginsPkg \o conf.plugin_class))
       IN  IF plugin_class.raised # None
           THEN Abort(ExceptPluginException(plugin_class.raised))
           ELSE /\ pc' = "plugin_resolved"
                /\ UNCHANGED raised
    /\ UNCHANGED <<conf, plugin, startOutcome, monitors, loggers, startLog, alive,
                   registered, trace, result, stopOutcome>>
    /\ UNCHANGED procVars
    /\ UNCHANGED waitVars
    /\ UNCHANGED envVars

(* How plugin.start() can end: it spawns the process and returns; it      *)
(* raises PluginException before or after spawning; the spawn itself      *)
(* fails with OSError.                                                    *)
StartOutcomes == {"ok", "PluginException", "PluginException_spawned", "OSError"}

(* A faulty rp_start: a failed start() is swallowed and the run goes on. *)
rp_start_failure_swallowed ==
    /\ pc = "plugin_resolved"
    /\ phases' = Append(phases, "start")
    /\ plugin' = "Plugin"
    /\ \E outcome \in StartOutcomes :
          /\ startOutcome' = outcome
          /\ IF outcome \in {"ok", "PluginException_spawned"}
             THEN /\ process' = "Popen"
                  /\ child' = "running"
             ELSE UNCHANGED <<process, child>>
          /\ pc' = "plugin_started"
          /\ UNCHANGED raised
    /\ UNCHANGED <<conf, monitors, loggers, startLog, alive, registered, trace, result,
                   stopOutcome>>
    /\ UNCHANGED <<exitStatus, returncode, stopCall>>
    /\ UNCHANGED waitVars
    /\ UNCHANGED envVars

(* self.plugin = plugin_class(conf.quokka); self.plugin.start() *)
rp_start ==
    /\ pc = "plugin_resolved"
    /\ phases' = Append(phases, "start")
    /\ plugin' = "Plugin"
    /\ \E outcome \in StartOutcomes :
          /\ startOutcome' = outcome
          /\ IF outcome \in {"ok", "PluginException_spawned"}
             THEN /\ process' = "Popen"
                  /\ child' = "running"
             ELSE UNCHANGED <<process, child>>
          /\ IF outcome = "ok"
             THEN /\ pc' = "plugin_started"
                  /\ UNCHANGED raised
             ELSE IF outcome = "OSError"
             THEN Abort(ExceptPluginException(Exc("OSError", <<"spawn">>)))
             ELSE Abort(ExceptPluginException(Exc("PluginException", <<"start">>)))
    /\ UNCHANGED <<conf, monitors, loggers, startLog, alive, registered, trace, result, stopOutcome>>
    /\ UNCHANGED <<exitStatus, returncode, stopCall>>
    /\ UNCHANGED waitVars
    /\ UNCHANGED envVars

(* self.attach_monitors(self.plugin, self.conf.monitors) *)
rp_attach_monitors ==
    /\ pc = "plugin_started"
    /\ phases' = Append(phases, "attach_monitors")
    /\ \E specs \in MonitorSpecLists, restart \in [1..MaxMonitors -> BOOLEAN] :
          LET st == attach_monitors(specs, restart)
          IN  /\ conf' = [conf EXCEPT !.monitors = specs]
              /\ monitors' = st.monitors
              /\ startLog' = st.startLog
              /\ alive' = Range(st.startLog)
              /\ registered' = st.registered
              /\ IF st.raised # None
                 THEN Abort(st.raised)
                 ELSE /\ pc' = "monitors_attached"
                      /\ UNCHANGED raised
    /\ UNCHANGED <<plugin, startOutcome, loggers, trace, result, stopOutcome>>
    /\ UNCHANGED procVars
    /\ UNCHANGED waitVars
    /\ UNCHANGED envVars

(* self.attach_loggers(self.conf.loggers) *)
rp_attach_loggers ==
    /\ pc = "monitors_attached"
    /\ phases' = Append(phases, "attach_loggers")
    /\ \E specs \in LoggerSpecLists :
          LET st == attach_loggers(specs)
          IN  /\ conf' = [conf EXCEPT !.loggers = specs]
              /\ loggers' = st.loggers
              /\ IF st.raised # None
                 THEN Abort(st.raised)
                 ELSE /\ pc' = "loggers_attached"
                      /\ UNCHANGED raised
    /\ UNCHANGED <<plugin, startOutcome, monitors, startLog, alive, registered,
                   trace, result, stopOutcome>>
    /\ UNCHANGED procVars
    /\ UNCHANGED waitVars
    /\ UNCHANGED envVars

(* self.plugin.process.wait(): the call is entered and blocks ... *)
rp_wait ==
    /\ pc = "loggers_attached"
    /\ phases' = Append(phases, "wait")
    /\ pc' = "waiting"
    /\ UNCHANGED <<conf, plugin, startOutcome, monitors, loggers, startLog, alive,
                   registered, trace, raised, result, stopOutcome>>
    /\ UNCHANGED procVars
    /\ UNCHANGED waitVars
    /\ UNCHANGED envVars

(* A faulty rp_wait_returns: the wait does not block on a running child. *)
rp_wait_returns_no_block ==
    /\ pc = "waiting"
    /\ returncode' = poll
    /\ pc' = "fault_detection"
    /\ UNCHANGED <<conf, phases, plugin, startOutcome, monitors, loggers, startLog, alive,
                   registered, trace, raised, result, stopOutcome>>
    /\ UNCHANGED <<process, child, exitStatus, stopCall>>
    /\ UNCHANGED waitVars
    /\ UNCHANGED envVars

(* ... and returns once the child has exited, recording its returncode. *)
rp_wait_returns ==
    /\ pc = "waiting"
    /\ child = "exited"
    /\ returncode' = Some(exitStatus)
    /\ pc' = "fault_detection"
    /\ UNCHANGED <<conf, phases, plugin, startOutcome, monitors, loggers, startLog, alive,
                   registered, trace, raised, result, stopOutcome>>
    /\ UNCHANGED <<process, child, exitStatus, stopCall>>
    /\ UNCHANGED waitVars
    /\ UNCHANGED envVars

(* A faulty rp_detect_faults: every monitor task is joined before the     *)
(* pass.                                                                  *)
rp_detect_faults_after_join ==
    /\ pc = "fault_detection"
    /\ alive = {}
    /\ phases' = Append(phases, "detect_faults")
    /\ detect_faults
    /\ pc' = "returning"
    /\ UNCHANGED <<conf, plugin, startOutcome, monitors, loggers, startLog, alive,
                   registered, raised, result, stopOutcome>>
    /\ UNCHANGED procVars
    /\ UNCHANGED waitVars
    /\ UNCHANGED envVars

(* self.detect_faults() *)
rp_detect_faults ==
    /\ pc = "fault_detection"
    /\ phases' = Append(phases, "detect_faults")
    /\ detect_faults
    /\ pc' = "returning"
    /\ UNCHANGED <<conf, plugin, startOutcome, monitors, loggers, startLog, alive,
                   registered, raised, result, stopOutcome>>
    /\ UNCHANGED procVars
    /\ UNCHANGED waitVars
    /\ UNCHANGED envVars

(* A faulty rp_return: a detected fault turns the result into a failure. *)
rp_return_fault_status ==
    /\ pc = "returning"
    /\ phases' = Append(phases, "return")
    /\ result' = IF \E i \in 1..Len(trace) :
                       trace[i].op = "detected_fault" /\ trace[i].data = "True"
                  THEN Some(1)
                  ELSE returncode
    /\ pc' = "done"
    /\ UNCHANGED <<conf, plugin, startOutcome, monitors, loggers, startLog, alive,
                   registered, trace, raised, stopOutcome>>
    /\ UNCHANGED procVars
    /\ UNCHANGED waitVars
    /\ UNCHANGED envVars

(* return self.plugin.process.returncode *)
rp_return ==
    /\ pc = "returning"
    /\ phases' = Append(phases, "return")
    /\ result' = returncode
    /\ pc' = "done"
    /\ UNCHANGED <<conf, plugin, startOutcome, monitors, loggers, startLog, alive,
                   registered, trace, raised, stopOutcome>>
    /\ UNCHANGED procVars
    /\ UNCHANGED waitVars
    /\ UNCHANGED envVars

run_plugin ==
    \/ rp_resolve
    \/ rp_start
    \/ rp_attach_monitors
    \/ rp_attach_loggers
    \/ rp_wait
    \/ rp_wait_returns
    \/ rp_detect_faults
    \/ rp_return

(* A KeyboardInterrupt delivered to the thread that is inside run_plugin. *)
Running == {"plugin_resolved", "plugin_started", "monitors_attached",
            "loggers_attached", "waiting", "fault_detection", "returning"}

Interrupt ==
    /\ pc \in Running
    /\ Abort(Exc("KeyboardInterrupt", <<>>))
    /\ UNCHANGED <<conf, phases, plugin, startOutcome, monitors, loggers, startLog, alive,
                   registered, trace, result, stopOutcome>>
    /\ UNCHANGED procVars
    /\ UNCHANGED waitVars
    /\ UNCHANGED envVars

(* --------------------------- Quokka.stop_plugin ----------------------- *)
(* Called by the owner of the Quokka object while run_plugin is not       *)
(* executing: before it, after it returned, after it raised.              *)
stop_plugin ==
    /\ pc \in {"idle", "raised", "done"}
    /\ IF plugin = "None"
       THEN \* "Plugin did not start."
            /\ stopOutcome' = "did_not_start"
            /\ UNCHANGED procVars
       ELSE IF ~is_running
       THEN \* the log line reads self.plugin.process.returncode
            /\ IF process = "None"
               THEN /\ stopOutcome' = "AttributeError"
                    /\ UNCHANGED returncode
               ELSE /\ stopOutcome' = "exited_prior"
                    /\ returncode' = poll
            /\ UNCHANGED <<process, child, exitStatus, stopCall>>
       ELSE \/ /\ stop
               /\ stopOutcome' = IF stopCall'.propagated = None
                                 THEN "stopped"
                                 ELSE stopCall'.propagated[1].type
               /\ UNCHANGED <<process, returncode>>
            \/ \* the plugin's own stop() raises PluginException
               /\ stopOutcome' = "QuokkaException"
               /\ UNCHANGED procVars
    /\ UNCHANGED <<conf, pc, phases, plugin, startOutcome, monitors, loggers,
                   startLog, alive, registered, trace, raised, result>>
    /\ UNCHANGED waitVars
    /\ UNCHANGED envVars

(* ---------------------- ExternalProcess.set_environ ------------------- *)
(* Text is a sequence of characters.  A Python value carries its type; a  *)
(* dict is the sequence of its <<key, value>> items in iteration order.   *)
PyInt(n) == [type |-> "int", int |-> n]
PyStr(t) == [type |-> "str", text |-> t]
PyDict(items) == [type |-> "dict", items |-> items]

MaxEnvCalls == 2

EnvKeys == {"ASAN_OPTIONS", "HOME"}
DictKeys == {PyStr(<<"a">>), PyStr(<<"b">>)}
Scalars == {PyInt(1), PyInt(2), PyInt(12), PyStr(<<"x">>)}

(* The ordered mappings from some of the keys to the values: sequences of *)
(* <<key, value>> items with pairwise different keys.                     *)
RECURSIVE ItemLists(_, _)
ItemLists(keys, values) ==
    {<<>>} \cup
    UNION {LET rests == ItemLists(keys \ {k}, values)
           IN  {<<<<k, v>>>> \o rest : v \in values, rest \in rests} :
           k \in keys}

Dicts == {PyDict(items) : items \in ItemLists(DictKeys, Scalars)}
ContextValues == Dicts \cup {PyInt(1), PyStr(<<"x">>)}
Contexts == ItemLists(EnvKeys, ContextValues)

(* The environment the process inherited: one of the keys a context can  *)
(* name is set in it, the other is not.                                   *)
InheritedEnv == [k \in {"HOME"} |-> <<"h">>]

Digits == <<"0", "1", "2", "3", "4", "5", "6", "7", "8", "9">>

(* The decimal numeral of a natural number. *)
RECURSIVE IntToText(_)
IntToText(n) ==
    IF n < Len(Digits)
    THEN <<Digits[n + 1]>>
    ELSE IntToText(n \div Len(Digits)) \o <<Digits[(n % Len(Digits)) + 1]>>

(* str(v) and repr(v): repr puts a string between single quotes. *)
str(v) == IF v.type = "int" THEN IntToText(v.int) ELSE v.text
repr(v) == IF v.type = "int" THEN IntToText(v.int) ELSE <<"'">> \o v.text \o <<"'">>

(* A faulty format: the value is converted with !s as the key is. *)
format_str_value(k, v) == str(k) \o <<"=">> \o str(v)

(* '{!s}={!r}'.format(k, v) *)
format(k, v) == str(k) \o <<"=">> \o repr(v)

(* sep.join(parts) *)
RECURSIVE join(_, _)
join(sep, parts) ==
    IF parts = <<>> THEN <<>>
    ELSE IF Len(parts) = 1 THEN parts[1]
    ELSE parts[1] \o sep \o join(sep, Tail(parts))

(* ','.join('{!s}={!r}'.format(k, v) for (k, v) in val.items()) *)
render(val) ==
    join(<<",">>, [i \in 1..Len(val.items) |->
                      format(val.items[i][1], val.items[i][2])])

(* env[key] = text on a mapping *)
SetItem(e, key, text) ==
    [k \in DOMAIN e \cup {key} |-> IF k = key THEN text ELSE e[k]]

(* The for loop of set_environ from the i-th item of the context on.      *)
(* os.environ accepts only str values: assigning an int raises TypeError  *)
(* and leaves the keys assigned so far in place.                          *)
RECURSIVE overlay(_, _, _)
overlay(e, items, i) ==
    IF i > Len(items)
    THEN [env |-> e, raised |-> None]
    ELSE LET key == items[i][1]
             val == items[i][2]
         IN  IF val.type = "dict"
             THEN overlay(SetItem(e, key, render(val)), items, i + 1)
             ELSE IF val.type = "str"
             THEN overlay(SetItem(e, key, val.text), items, i + 1)
             ELSE [env |-> e, raised |-> Exc("TypeError", <<key>>)]

(* set_environ(context): env = os.environ binds the process environment  *)
(* itself, so every env[key] = ... assigns into os.environ, and the       *)
(* mapping returned is os.environ.  A caller makes the call once with any *)
(* context and then repeats it with the same context.                     *)
set_environ ==
    /\ envCalls < MaxEnvCalls
    /\ envCalls' = envCalls + 1
    /\ \E ctx \in IF envCalls = 0
                  THEN {None} \cup {Some(c) : c \in Contexts}
                  ELSE {context} :
          /\ context' = ctx
          /\ inherited' = environ
          /\ IF ctx = None
             THEN /\ UNCHANGED environ
                  /\ env' = Some(environ)
                  /\ envRaised' = None
             ELSE LET st == overlay(environ, ctx[1], 1)
                  IN  /\ environ' = st.env
                      /\ env' = IF st.raised = None THEN Some(st.env) ELSE None
                      /\ envRaised' = st.raised
    /\ UNCHANGED <<quokkaVars, procVars, waitVars>>

(* ------------------------- monitor background tasks ------------------- *)
(* The background task of a started monitor ends on its own, at any       *)
(* moment or never.                                                       *)
MonitorTaskEnds ==
    /\ \E m \in alive : alive' = alive \ {m}
    /\ UNCHANGED <<conf, pc, phases, plugin, startOutcome, monitors, loggers,
                   startLog, registered, trace, raised, result, stopOutcome>>
    /\ UNCHANGED <<procVars, waitVars, envVars>>

(* ---------------------------- specification --------------------------- *)
QuokkaInit ==
    /\ conf \in [plugin_class : PluginClassIds, monitors : {<<>>}, loggers : {<<>>}]
    /\ pc = "idle"
    /\ phases = <<>>
    /\ plugin = "None"
    /\ startOutcome = "not_called"
    /\ monitors = <<>>
    /\ loggers = <<>>
    /\ startLog = <<>>
    /\ alive = {}
    /\ registered = <<>>
    /\ trace = <<>>
    /\ raised = None
    /\ result = None
    /\ stopOutcome = "not_called"

ProcessInit ==
    /\ process = "None"
    /\ child = "none"
    /\ exitStatus = 0
    /\ returncode = None
    /\ stopCall = NoStopCall

WaitInit ==
    /\ wpc = "idle"
    /\ timeout = 0
    /\ now = 0
    /\ end_time = 0
    /\ interval = 0
    /\ waitResult = None

EnvInit ==
    /\ environ = InheritedEnv
    /\ context = None
    /\ inherited = environ
    /\ env = None
    /\ envRaised = None
    /\ envCalls = 0

Init == QuokkaInit /\ ProcessInit /\ WaitInit /\ EnvInit

(* The orchestrator: one run_plugin, the child it supervises, and the     *)
(* owner's stop_plugin calls.                                             *)
Next ==
    \/ run_plugin
    \/ Interrupt
    \/ stop_plugin
    \/ ChildExit
    \/ MonitorTaskEnds

Spec == Init /\ [][Next]_vars

(* One run_plugin execution with what runs beside it: the child, the     *)
(* monitor tasks, the interrupt.  The thread inside run_plugin keeps      *)
(* being scheduled; nothing makes the child exit or a monitor task end.   *)
RunNext ==
    \/ run_plugin
    \/ Interrupt
    \/ ChildExit
    \/ MonitorTaskEnds

FairRunSpec == Init /\ [][RunNext]_vars /\ WF_vars(run_plugin)

(* The environment construction: set_environ calls on one process. *)
EnvNext == set_environ

EnvSpecInit ==
    /\ Init
    /\ conf.plugin_class = <<"Plugin">>

EnvSpec == EnvSpecInit /\ [][EnvNext]_vars

(* One ExternalProcess handle: open, one wait(timeout) call, stop()       *)
(* calls outside it, with the child free to exit at any moment or never.  *)
WaitNext ==
    \/ open
    \/ wait
    \/ stop_call
    \/ ChildExit

WaitSpecInit ==
    /\ Init
    /\ conf.plugin_class = <<"Plugin">>

WaitSpec == WaitSpecInit /\ [][WaitNext]_vars

(* The thread inside wait keeps being scheduled; nothing makes the child  *)
(* exit on its own.                                                       *)
FairWaitSpec == WaitSpec /\ WF_vars(wait)

(* ======================= claims: detect_faults ======================== *)
PassDone == "detect_faults" \in Range(phases)

At(op) == {i \in 1..Len(trace) : trace[i].op = op}
FaultsSeen == {i \in At("detected_fault") : trace[i].data = "True"}

IsAddFault(e) == e.op = "add_fault"
IsLoggerCall(e) == e.op \in {"add_to_bucket", "add_fault"}
IsVisit(e) == e.op = "detected_fault"

(* C1: in a detect_faults pass, before the first add_fault on any logger  *)
(* every recorded monitor has been visited, and for every monitor that    *)
(* reported a fault every recorded logger has had add_to_bucket called    *)
(* with that monitor's data.                                              *)
C1_BucketsBeforeFinalize ==
    \A i \in At("add_fault") :
        /\ \A j \in At("detected_fault") : j < i
        /\ Cardinality(At("detected_fault")) = Len(monitors)
        /\ \A j \in FaultsSeen :
              \E g \in At("get_data") :
                  /\ j < g
                  /\ trace[g].mon = trace[j].mon
                  /\ \A l \in 1..Len(loggers) :
                        \E b \in At("add_to_bucket") :
                            /\ g < b
                            /\ b < i
                            /\ trace[b].logger = loggers[l]
                            /\ trace[b].mon = trace[g].mon
                            /\ trace[b].data = trace[g].data

C1_Witness ==
    /\ PassDone
    /\ Len(monitors) >= 2
    /\ Len(loggers) >= 2
    /\ FaultsSeen # {}
    /\ At("add_fault") # {}

(* C2: once the pass has run, add_fault has been called exactly once on   *)
(* each recorded logger, in attachment order, whatever the monitors       *)
(* reported and however many monitors there are.                          *)
C2_FinalizeOncePerLogger ==
    PassDone =>
        LET F == SelectSeq(trace, IsAddFault)
        IN  [i \in 1..Len(F) |-> F[i].logger] = loggers

C2_Witness ==
    /\ PassDone
    /\ Len(loggers) >= 2
    /\ FaultsSeen = {}
    /\ Cardinality(At("add_fault")) = 2

(* C3: the collection phase visits the monitors in attachment order; a    *)
(* visit that reports a fault is followed by exactly one get_data and     *)
(* then by add_to_bucket of that record on every logger in attachment     *)
(* order; a visit that reports no fault is followed by neither.  With one *)
(* faulting monitor and one logger the logger calls are one               *)
(* add_to_bucket, then one add_fault.                                     *)
C3_CollectionOrder ==
    PassDone =>
        LET V == SelectSeq(trace, IsVisit)
            L == SelectSeq(trace, IsLoggerCall)
        IN  /\ [i \in 1..Len(V) |-> V[i].mon] = monitors
            /\ \A j \in FaultsSeen :
                  /\ j + 1 + Len(loggers) <= Len(trace)
                  /\ trace[j + 1].op = "get_data"
                  /\ trace[j + 1].mon = trace[j].mon
                  /\ \A k \in 1..Len(loggers) :
                        trace[j + 1 + k] =
                            Call("add_to_bucket", trace[j].mon, loggers[k],
                                 trace[j + 1].data)
            /\ Cardinality(At("get_data")) = Cardinality(FaultsSeen)
            /\ Cardinality(At("add_to_bucket"))
                   = Cardinality(FaultsSeen) * Len(loggers)
            /\ (Len(monitors) = 1 /\ Len(loggers) = 1 /\ FaultsSeen # {}) =>
                  [i \in 1..Len(L) |-> L[i].op] = <<"add_to_bucket", "add_fault">>

C3_Witness ==
    /\ PassDone
    /\ Len(monitors) = 2
    /\ Len(loggers) = 2
    /\ Cardinality(FaultsSeen) = 1
    /\ trace[1].data = "False"

(* ===================== claims: ExternalProcess.wait =================== *)
WaitCalled == wpc \notin {"idle", "raised"}

(* C4: a wait(timeout) call with timeout > 0 on an opened handle          *)
(* eventually returns, whatever the child does and whatever terminate()   *)
(* and kill() do inside stop().                                           *)
C4_WaitAlwaysReturns ==
    (WaitCalled /\ timeout > 0) ~> (wpc = "returned")

(* C5: on every path on which wait returns, the value it returns is the   *)
(* exit code of the process.                                              *)
C5_WaitReturnsExitCode ==
    wpc = "returned" => waitResult = Some(exitStatus)

(* C6: whenever wait has returned, on any path and for any timeout, the   *)
(* process has exited and is_running() is false.                          *)
C6_ReturnedImpliesExited ==
    wpc = "returned" => (child = "exited" /\ ~is_running)

C6_Witness ==
    /\ wpc = "returned"
    /\ timeout > 0
    /\ now >= end_time
    /\ stopCall.terminate # "not_called"
    /\ ~is_running

(* C16: for every timeout > 0, in discrete clock ticks, wait(timeout)      *)
(* returns no later than timeout + poll_interval after it was called,     *)
(* with poll_interval = min(timeout / 1000, 0.25 s), both when the        *)
(* process exits on its own and when it is stopped at the deadline.       *)
C16_WaitReturnsWithinBound ==
    (wpc = "returned" /\ timeout > 0) => now <= end_time + interval

(* ========================= claims: run_plugin ========================= *)
Ran(phase) == phase \in Range(phases)
Times(phase) == Cardinality({i \in 1..Len(phases) : phases[i] = phase})

PluginUnresolved == conf.plugin_class # <<"Plugin">>

(* C7: when the configured plugin identifier does not resolve, run_plugin *)
(* ends with a QuokkaException that names the identifier; no plugin is    *)
(* constructed or started, nothing is attached and no pass runs.          *)
C7_UnresolvedPluginRaisesQuokkaException ==
    (PluginUnresolved /\ Ran("resolve")) =>
        /\ pc = "raised"
        /\ raised # None
        /\ raised[1].type = "QuokkaException"
        /\ Range(raised[1].arg) \cap Range(conf.plugin_class) # {}
        /\ plugin = "None"
        /\ startOutcome = "not_called"
        /\ monitors = <<>>
        /\ loggers = <<>>
        /\ startLog = <<>>
        /\ trace = <<>>

StartFailed == startOutcome \notin {"not_called", "ok"}

(* C8: when plugin.start() fails, run_plugin has ended with an error      *)
(* after a single start attempt: the monitors and loggers lists are       *)
(* empty, no monitor was started, the process was not waited on and       *)
(* detect_faults did not run.                                             *)
C8_StartFailureAborts ==
    StartFailed =>
        /\ pc = "raised"
        /\ raised # None
        /\ raised[1].type \in {"QuokkaException", "OSError"}
        /\ Times("start") = 1
        /\ monitors = <<>>
        /\ loggers = <<>>
        /\ startLog = <<>>
        /\ registered = <<>>
        /\ ~Ran("attach_monitors")
        /\ ~Ran("attach_loggers")
        /\ ~Ran("wait")
        /\ ~Ran("detect_faults")
        /\ trace = <<>>
        /\ result = None

C8_Witness ==
    /\ startOutcome = "PluginException"
    /\ pc = "raised"
    /\ raised = Exc("QuokkaException", <<"start">>)

(* run_plugin ended with an exception raised by the named step. *)
AbortedIn(phase) ==
    /\ pc = "raised"
    /\ phases[Len(phases)] = phase
    /\ raised[1].type # "KeyboardInterrupt"

(* The positions of the monitor specs attach_monitors cannot construct:   *)
(* an identifier that does not resolve, or a kind it does not know.       *)
Unrecognized ==
    {i \in 1..Len(conf.monitors) :
        conf.monitors[i].class \in {<<"OtherMonitor">>, <<"Bogus">>}}

(* Every other spec is a ConsoleMonitor whose listeners resolve. *)
OthersSound ==
    \A i \in (1..Len(conf.monitors)) \ Unrecognized :
        /\ conf.monitors[i].class = <<"ConsoleMonitor">>
        /\ \A j \in 1..Len(conf.monitors[i].listeners) :
              conf.monitors[i].listeners[j] = <<"Listener">>

(* C9: an unrecognized monitor spec (unknown identifier or unknown kind)  *)
(* does not abort the run: it is skipped, every other spec is attached    *)
(* and started in order, and every resolvable logger list is attached.    *)
C9_UnrecognizedMonitorSkipped ==
    (Ran("attach_monitors") /\ Unrecognized # {} /\ OthersSound) =>
        /\ ~AbortedIn("attach_monitors")
        /\ Range(monitors) = (1..Len(conf.monitors)) \ Unrecognized
        /\ startLog = monitors
        /\ \A a, b \in 1..Len(monitors) : a < b => monitors[a] < monitors[b]
        /\ (Ran("attach_loggers") /\ \A k \in 1..Len(conf.loggers) :
                                         conf.loggers[k] = <<"Logger">>)
              => (Len(loggers) = Len(conf.loggers) /\ ~AbortedIn("attach_loggers"))

(* C10: a stop_plugin call made when the plugin never started (no plugin  *)
(* object, or a plugin object without a process) or when its process has  *)
(* already exited completes without error and without calling             *)
(* plugin.stop(); a call made while the process runs calls plugin.stop(). *)
C10_StopPluginNoOpUnlessRunning ==
    [][stop_plugin =>
          IF plugin = "None" \/ process = "None" \/ child = "exited"
          THEN /\ stopOutcome' \in {"did_not_start", "exited_prior"}
               /\ stopCall' = stopCall
               /\ child' = child
          ELSE stopOutcome' \in {"stopped", "QuokkaException"}]_vars

(* ==================== claims: ExternalProcess.stop ==================== *)
(* C11: stop() never fails observably: on a handle that was never opened  *)
(* and for every error terminate() or kill() raises, the call returns     *)
(* normally and no error propagates to the caller.                        *)
C11_StopNeverPropagates ==
    /\ stopCall.propagated = None
    /\ (wpc = "raised" => process = "None")

(* stop() returned after terminate() or kill() raised inside it. *)
C11_Witness ==
    /\ stopCall.called
    /\ "raised" \in {stopCall.terminate, stopCall.kill}
    /\ stopCall.propagated = None

(* stop() returned on a handle that was never opened. *)
C11_WitnessNeverStarted ==
    /\ stopCall.called
    /\ process = "None"

(* C20: every stop() call on a handle that has a process attempts the     *)
(* graceful termination and then the forceful kill, also when the         *)
(* termination attempt raised an error.                                   *)
C20_KillAlwaysAttempted ==
    stopCall.terminate # "not_called" => stopCall.kill # "not_called"

(* ================= claims: run_plugin, order and result =============== *)
PhaseOrder ==
    <<"resolve", "start", "attach_monitors", "attach_loggers", "wait",
      "detect_faults", "return">>

(* The position run_plugin is at after n phases, unless it raised. *)
PcAfter(n) ==
    <<"idle", "plugin_resolved", "plugin_started", "monitors_attached",
      "loggers_attached", "waiting", "returning", "done">>[n + 1]

(* C12: run_plugin passes its phases in one fixed order (plugin resolved, *)
(* plugin started, monitors attached, loggers attached, waiting, fault    *)
(* detection, done) and repeats none; no monitor is started before the    *)
(* plugin has started, no logger is attached before the monitors were     *)
(* attached, and detect_faults queries no monitor before the plugin's     *)
(* process has exited.                                                    *)
C12_PhasesInOrder ==
    /\ phases = SubSeq(PhaseOrder, 1, Len(phases))
    /\ pc \in {PcAfter(Len(phases)), "raised", "fault_detection"}
    /\ (pc = "fault_detection" => phases[Len(phases)] = "wait")
    /\ (startLog # <<>> => (Ran("start") /\ startOutcome = "ok"))
    /\ (loggers # <<>> => (Ran("attach_monitors") /\ Ran("attach_loggers")))
    /\ ((pc = "fault_detection" \/ Ran("detect_faults") \/ trace # <<>>)
           => child = "exited")

(* A whole run: monitors started, loggers attached, monitors queried. *)
C12_Witness ==
    /\ pc = "done"
    /\ phases = PhaseOrder
    /\ startLog # <<>>
    /\ loggers # <<>>
    /\ At("detected_fault") # {}

(* C13: the value run_plugin returns is the exit code of the plugin's     *)
(* process, whatever monitors were skipped and whatever faults the        *)
(* fault-detection pass found.                                            *)
C13_ReturnsExitCode ==
    pc = "done" => result = Some(exitStatus)

(* run_plugin returned 0 although a monitor spec was skipped and a fault  *)
(* was detected.                                                          *)
C13_Witness ==
    /\ pc = "done"
    /\ result = Some(0)
    /\ FaultsSeen # {}
    /\ Len(monitors) < Len(conf.monitors)

(* ========================= claims: set_environ ======================== *)
EnvReturned == envCalls > 0 /\ envRaised = None

(* C14: with a context given, set_environ overlays the context's keys on  *)
(* a copy: after the call the inherited environment holds the keys and    *)
(* values it held before and only the returned mapping carries the        *)
(* overlaid keys; with no context the inherited environment is returned   *)
(* unmodified.                                                            *)
C14_InheritedEnvironmentUntouched ==
    envCalls > 0 =>
        /\ environ = inherited
        /\ (context = None => env = Some(inherited))

(* The k=v text of a nested mapping as the claim gives it: every value in *)
(* its plain string form.                                                 *)
PlainPairs(items) ==
    [j \in 1..Len(items) |-> items[j][1].text \o <<"=">> \o str(items[j][2])]

(* The text split at every occurrence of the separator character. *)
RECURSIVE Split(_, _)
Split(t, sep) ==
    IF \A i \in 1..Len(t) : t[i] # sep
    THEN <<t>>
    ELSE LET i == CHOOSE i \in 1..Len(t) :
                     t[i] = sep /\ \A j \in 1..(i - 1) : t[j] # sep
         IN  <<SubSeq(t, 1, i - 1)>> \o Split(SubSeq(t, i + 1, Len(t)), sep)

(* The items of the context whose value is a nested mapping. *)
NestedItems ==
    IF context = None THEN {}
    ELSE {i \in 1..Len(context[1]) : context[1][i][2].type = "dict"}

(* C15 as stated: the variable of every nested-mapping key is the         *)
(* mapping's entries as k=v joined by commas in iteration order, integer  *)
(* and string values alike ({"a":1,"b":2} gives a=1,b=2).                 *)
C15_NestedMappingPlain ==
    EnvReturned =>
        \A i \in NestedItems :
            LET key == context[1][i][1]
                items == context[1][i][2].items
            IN  IF items = <<>>
                THEN env[1][key] = <<>>
                ELSE Split(env[1][key], ",") = PlainPairs(items)

(* How a value reads inside the variable: an integer as its numeral, a    *)
(* string between single quotes.                                          *)
Shown(v) ==
    IF v.type = "str"
    THEN <<"'">> \o v.text \o <<"'">>
    ELSE IntToText(v.int)

(* C15 amended: the variable of every nested-mapping key is the mapping's *)
(* entries joined by commas in iteration order, an integer value as k=v   *)
(* and a string value as k='v' (between single quotes); a second call     *)
(* with the same context yields the same values.                          *)
C15_NestedMappingRendered ==
    EnvReturned =>
        \A i \in NestedItems :
            LET key == context[1][i][1]
                items == context[1][i][2].items
                parts == Split(env[1][key], ",")
            IN  /\ IF items = <<>>
                   THEN env[1][key] = <<>>
                   ELSE /\ Len(parts) = Len(items)
                        /\ \A j \in 1..Len(items) :
                              Split(parts[j], "=") = <<items[j][1].text, Shown(items[j][2])>>
                /\ (envCalls = MaxEnvCalls => env[1][key] = inherited[key])

(* {"a": 1, "b": 'x'} under one key, set twice. *)
C15_Witness ==
    /\ EnvReturned
    /\ envCalls = MaxEnvCalls
    /\ \E i \in NestedItems :
          /\ context[1][i][2].items =
                <<<<PyStr(<<"a">>), PyInt(1)>>, <<PyStr(<<"b">>), PyStr(<<"x">>)>>>>
          /\ env[1][context[1][i][1]] = <<"a", "=", "1", ",", "b", "=", "'", "x", "'">>

(* ======================= claims: attach_monitors ====================== *)
(* The positions of the monitor specs of a recognized kind. *)
Recognized ==
    {i \in 1..Len(conf.monitors) :
        conf.monitors[i].class \in {<<"ConsoleMonitor">>, <<"WebSocketMonitor">>}}

(* Every identifier in the monitor specs resolves: monitors and listeners. *)
AllResolve ==
    \A i \in 1..Len(conf.monitors) :
        /\ conf.monitors[i].class # <<"Bogus">>
        /\ \A j \in 1..Len(conf.monitors[i].listeners) :
              conf.monitors[i].listeners[j] = <<"Listener">>

(* C18: for every monitor spec of a recognized kind (ConsoleMonitor or    *)
(* WebSocketMonitor), at any position, attach_monitors constructs a new   *)
(* instance, starts it once and records it once; no instance is started   *)
(* or recorded twice and the recorded list follows the spec order.        *)
C18_RecognizedMonitorAttachedOnce ==
    (Ran("attach_monitors") /\ AllResolve) =>
        /\ ~AbortedIn("attach_monitors")
        /\ Range(monitors) = Recognized
        /\ Len(monitors) = Cardinality(Recognized)
        /\ startLog = monitors
        /\ \A a, b \in 1..Len(monitors) : a < b => monitors[a] < monitors[b]

(* C19: every listener attach_monitors constructs is registered on one    *)
(* monitor only, the instance constructed from the spec that lists the    *)
(* listener, never on a monitor built from another spec.                  *)
C19_ListenerOnItsOwnMonitor ==
    /\ \A a \in 1..Len(registered) : registered[a][3] = registered[a][1]
    /\ \A a, b \in 1..Len(registered) :
          (a # b) => <<registered[a][1], registered[a][2]>>
                       # <<registered[b][1], registered[b][2]>>

(* ========================= claims: monitor tasks ====================== *)
Interrupted == pc = "raised" /\ raised[1].type = "KeyboardInterrupt"

(* C17: a monitor task that never ends cannot block the run.  run_plugin  *)
(* never joins or waits on a monitor task: once the plugin's process has  *)
(* exited, run_plugin goes through fault detection and completes (unless  *)
(* a KeyboardInterrupt ends it), also when every monitor task still runs. *)
C17_MonitorTasksNeverBlock ==
    (pc = "waiting" /\ child = "exited") ~> (pc = "done" \/ Interrupted)

(* run_plugin returned while the task of every monitor it started runs. *)
C17_Witness ==
    /\ pc = "done"
    /\ Len(monitors) = MaxMonitors
    /\ alive = Range(monitors)
====
